---- MODULE Spec2Model ----
\* A model of src/RSS-to-Telegram-Bot/src/web/utils.py: the lazily upgrading cookie
\* jar (YummyCookieJar), the date parser, the cached derived fields of WebResponse,
\* WebFeed.calc_next_check_as_per_server_side_cache and proxy_filter.
\*
\* Conventions
\*   - a Python str is a sequence of one-character strings;
\*   - Optional[T] is a sequence of length <= 1: None is <<>>, a value x is <<x>>;
\*   - a datetime is [t |-> seconds, aware |-> has a tzinfo];
\*   - an IP address is [v |-> 4 or 6, o |-> its octets].
EXTENDS Integers, Sequences, FiniteSets, TLC

VARIABLES
    headers,        \* WebResponse.headers (immutable once the view is constructed)
    clock,          \* the wall clock read by datetime.now(timezone.utc)
    cache,          \* cache[v]: the cached_property storage of view v
    feed,           \* the WebFeed fields read by calc_next_check_as_per_server_side_cache
    result,         \* the outcome of the last calc_next_check_as_per_server_side_cache call
    jar,            \* YummyCookieJar: __is_dummy, __real_cookie_jar and the stores allocated
    tasks,          \* the position of each task inside update_cookies
    obs,            \* what the last jar operation returned, and the call history
    env,            \* env.PROXY_BYPASS_PRIVATE, env.PROXY_BYPASS_DOMAINS
    pcall           \* the last proxy_filter call: its hostname and its return value

vars == <<headers, clock, cache, feed, result, jar, tasks, obs, env, pcall>>

-----------------------------------------------------------------------------
\* Values

None == <<>>
Some(x) == <<x>>
Val(o) == o[1]

Digits == <<"0", "1", "2", "3", "4", "5", "6", "7", "8", "9">>
UpperCase == <<"A", "B", "C", "D", "E", "F", "G", "H", "I", "J", "K", "L", "M",
               "N", "O", "P", "Q", "R", "S", "T", "U", "V", "W", "X", "Y", "Z">>
LowerCase == <<"a", "b", "c", "d", "e", "f", "g", "h", "i", "j", "k", "l", "m",
               "n", "o", "p", "q", "r", "s", "t", "u", "v", "w", "x", "y", "z">>

IndexOf(seq, c) == IF \E i \in 1..Len(seq) : seq[i] = c
                   THEN CHOOSE i \in 1..Len(seq) : seq[i] = c
                   ELSE 0

\* str.lower()
LowerChar(c) == IF IndexOf(UpperCase, c) > 0 THEN LowerCase[IndexOf(UpperCase, c)] ELSE c
Lower(s) == [i \in 1..Len(s) |-> LowerChar(s[i])]

\* the places where p occurs in s
Occurrences(s, p) == {i \in 1..(Len(s) - Len(p) + 1) : SubSeq(s, i, i + Len(p) - 1) = p}

\* p in s
Contains(s, p) == Occurrences(s, p) # {}

Min(S) == CHOOSE x \in S : \A y \in S : x <= y

\* s.partition(p): (before, p, after) at the first occurrence of p, or (s, '', '')
Partition(s, p) ==
    IF Contains(s, p)
    THEN LET i == Min(Occurrences(s, p))
         IN <<SubSeq(s, 1, i - 1), p, SubSeq(s, i + Len(p), Len(s))>>
    ELSE <<s, <<>>, <<>>>>

\* s.endswith(p)
EndsWith(s, p) == Len(p) <= Len(s) /\ SubSeq(s, Len(s) - Len(p) + 1, Len(s)) = p

\* str.strip() of the blanks of the alphabet
RECURSIVE LStrip(_)
LStrip(s) == IF s # <<>> /\ Head(s) = " " THEN LStrip(Tail(s)) ELSE s
RECURSIVE RStrip(_)
RStrip(s) == IF s # <<>> /\ s[Len(s)] = " " THEN RStrip(SubSeq(s, 1, Len(s) - 1)) ELSE s
Strip(s) == RStrip(LStrip(s))

IsDigit(c) == IndexOf(Digits, c) > 0
DigitVal(c) == IndexOf(Digits, c) - 1

RECURSIVE DecValue(_, _)
DecValue(s, acc) ==
    IF s = <<>> THEN acc
    ELSE IF Head(s) = "_" THEN DecValue(Tail(s), acc)
    ELSE DecValue(Tail(s), acc * 10 + DigitVal(Head(s)))

\* the digits of an int() literal: decimal digits, single underscores between them
IsIntBody(b) ==
    /\ b # <<>>
    /\ \A i \in 1..Len(b) : IsDigit(b[i]) \/ b[i] = "_"
    /\ IsDigit(b[1]) /\ IsDigit(b[Len(b)])
    /\ \A i \in 1..(Len(b) - 1) : ~(b[i] = "_" /\ b[i + 1] = "_")

\* int(s): the integer, or None where Python raises ValueError
ParseInt(s) ==
    LET t == Strip(s)
        signed == t # <<>> /\ Head(t) \in {"+", "-"}
        body == IF signed THEN Tail(t) ELSE t
    IN IF IsIntBody(body)
       THEN Some(IF signed /\ Head(t) = "-" THEN 0 - DecValue(body, 0) ELSE DecValue(body, 0))
       ELSE None

\* str.isdecimal()
IsDecimal(s) == s # <<>> /\ \A i \in 1..Len(s) : IsDigit(s[i])

\* the literals of the source, as character sequences
MAX_AGE_EQ == <<"m", "a", "x", "-", "a", "g", "e", "=">>
NO_CACHE == <<"n", "o", "-", "c", "a", "c", "h", "e">>
NO_STORE == <<"n", "o", "-", "s", "t", "o", "r", "e">>
COMMA == <<",">>

-----------------------------------------------------------------------------
\* rfc_2822_8601_to_datetime, with the ValueError of Python 3.10 and later on a
\* string that is no RFC 2822 date
\* A time string is [fmt, t, tz]: fmt is the syntax it is written in, t the
\* instant it names, tz whether it carries a usable UTC offset ("-0000" in RFC 2822
\* and a missing offset in ISO 8601 both give a naive datetime).

DateTime(t, aware) == [t |-> t, aware |-> aware]

parsedate_to_datetime(time_str) ==
    IF time_str.fmt = "rfc2822" THEN Some(DateTime(time_str.t, time_str.tz)) ELSE None

fromisoformat(time_str) ==
    IF time_str.fmt = "iso8601" THEN Some(DateTime(time_str.t, time_str.tz)) ELSE None

rfc_2822_8601_to_datetime(time_str) ==
    IF time_str = None \/ Val(time_str).fmt = "empty" THEN None
    ELSE IF parsedate_to_datetime(Val(time_str)) # None THEN parsedate_to_datetime(Val(time_str))
    ELSE IF fromisoformat(Val(time_str)) # None THEN fromisoformat(Val(time_str))
    ELSE None

\* datetime + timedelta(seconds=s)
PlusSeconds(d, s) == DateTime(d.t + s, d.aware)

\* a > b on datetimes: Python raises TypeError when exactly one of them is naive
Comparable(a, b) == a.aware = b.aware
After(a, b) == a.t > b.t

-----------------------------------------------------------------------------
\* WebResponse

AGE_REMAINING_CLAMP_MIN == 0
AGE_REMAINING_CLAMP_MAX == 21600

Fields == {"etag", "now", "date", "last_modified", "max_age", "age", "age_remaining", "expires"}

\* a view none of whose cached properties has been read
Fresh == [f \in Fields |-> None]

IsCached(c, f) == c[f] # None

etag(h) == IF h.etag = None \/ Val(h.etag) = <<>> THEN None ELSE h.etag

\* with the max-age= directive looked at before no-cache and no-store
max_age_DirectiveFirst(h) ==
    LET cache_control == IF h.cc = None THEN <<>> ELSE Lower(Val(h.cc))
        directive == Partition(Partition(cache_control, MAX_AGE_EQ)[3], COMMA)[1]
    IN IF cache_control = <<>> THEN None
       ELSE IF directive # <<>> THEN ParseInt(directive)
       ELSE IF Contains(cache_control, NO_CACHE) \/ Contains(cache_control, NO_STORE)
            THEN Some(0)
       ELSE None

max_age(h) ==
    LET cache_control == IF h.cc = None THEN <<>> ELSE Lower(Val(h.cc))
        directive == Partition(Partition(cache_control, MAX_AGE_EQ)[3], COMMA)[1]
    IN IF cache_control = <<>> THEN None
       ELSE IF Contains(cache_control, NO_CACHE) \/ Contains(cache_control, NO_STORE)
            THEN Some(0)
       ELSE IF directive # <<>> THEN ParseInt(directive)
       ELSE None

age(h) == IF h.age = None \/ Val(h.age) = <<>> THEN None ELSE ParseInt(Val(h.age))

\* without the upper clamp
Clamp_NoUpper(age_remaining) ==
    IF age_remaining < AGE_REMAINING_CLAMP_MIN THEN AGE_REMAINING_CLAMP_MIN ELSE age_remaining

Clamp(age_remaining) ==
    IF age_remaining < AGE_REMAINING_CLAMP_MIN THEN AGE_REMAINING_CLAMP_MIN
    ELSE IF age_remaining > AGE_REMAINING_CLAMP_MAX THEN AGE_REMAINING_CLAMP_MAX
    ELSE age_remaining

\* Each Get reads one cached property of a view with storage c and returns the
\* storage afterwards: the property is computed on its first read only, and the
\* properties its getter reads are read (and cached) on the way.

GetEtag(c) == IF IsCached(c, "etag") THEN c ELSE [c EXCEPT !.etag = Some(etag(headers))]

GetNow(c) == IF IsCached(c, "now") THEN c ELSE [c EXCEPT !.now = Some(DateTime(clock, TRUE))]

\* as a plain property: computed at every read, from the clock
GetDate_Recomputed(c) ==
    LET parsed == rfc_2822_8601_to_datetime(headers.date)
    IN IF parsed # None THEN [c EXCEPT !.date = Some(Val(parsed))]
       ELSE [c EXCEPT !.date = Some(DateTime(clock, TRUE))]

GetDate(c) ==
    IF IsCached(c, "date") THEN c
    ELSE LET parsed == rfc_2822_8601_to_datetime(headers.date)
         IN IF parsed # None THEN [c EXCEPT !.date = Some(Val(parsed))]
            ELSE LET c1 == GetNow(c) IN [c1 EXCEPT !.date = Some(Val(c1.now))]

GetLastModified(c) ==
    IF IsCached(c, "last_modified") THEN c
    ELSE LET parsed == rfc_2822_8601_to_datetime(headers.last_modified)
         IN IF parsed # None THEN [c EXCEPT !.last_modified = Some(Val(parsed))]
            ELSE LET c1 == GetDate(c) IN [c1 EXCEPT !.last_modified = Some(Val(c1.date))]

GetMaxAge(c) == IF IsCached(c, "max_age") THEN c ELSE [c EXCEPT !.max_age = Some(max_age(headers))]

GetAge(c) == IF IsCached(c, "age") THEN c ELSE [c EXCEPT !.age = Some(age(headers))]

GetAgeRemaining(c) ==
    IF IsCached(c, "age_remaining") THEN c
    ELSE LET c1 == GetMaxAge(c)
         IN IF Val(c1.max_age) = None THEN [c1 EXCEPT !.age_remaining = Some(None)]
            ELSE LET c2 == GetAge(c1)
                     age_or_0 == IF Val(c2.age) = None THEN 0 ELSE Val(Val(c2.age))
                 IN [c2 EXCEPT !.age_remaining =
                         Some(Some(Clamp(Val(Val(c2.max_age)) - age_or_0)))]

\* with the Expires header taking precedence over max-age
GetExpires_HeaderFirst(c) ==
    IF IsCached(c, "expires") THEN c
    ELSE LET c1 == GetAgeRemaining(c)
             parsed == rfc_2822_8601_to_datetime(headers.expires)
         IN IF Val(c1.age_remaining) = None \/ parsed # None
            THEN [c1 EXCEPT !.expires = Some(parsed)]
            ELSE IF Val(Val(c1.age_remaining)) <= 0
            THEN [c1 EXCEPT !.expires = Some(None)]
            ELSE LET c2 == GetDate(c1)
                 IN [c2 EXCEPT !.expires =
                         Some(Some(PlusSeconds(Val(c2.date), Val(Val(c2.age_remaining)))))]

GetExpires(c) ==
    IF IsCached(c, "expires") THEN c
    ELSE LET c1 == GetAgeRemaining(c)
         IN IF Val(c1.age_remaining) = None
            THEN [c1 EXCEPT !.expires = Some(rfc_2822_8601_to_datetime(headers.expires))]
            ELSE IF Val(Val(c1.age_remaining)) <= 0
            THEN [c1 EXCEPT !.expires = Some(None)]
            ELSE LET c2 == GetDate(c1)
                 IN [c2 EXCEPT !.expires =
                         Some(Some(PlusSeconds(Val(c2.date), Val(Val(c2.age_remaining)))))]

Get(c, f) ==
    CASE f = "etag" -> GetEtag(c)
      [] f = "now" -> GetNow(c)
      [] f = "date" -> GetDate(c)
      [] f = "last_modified" -> GetLastModified(c)
      [] f = "max_age" -> GetMaxAge(c)
      [] f = "age" -> GetAge(c)
      [] f = "age_remaining" -> GetAgeRemaining(c)
      [] f = "expires" -> GetExpires(c)

-----------------------------------------------------------------------------
\* The inputs of the model

Epoch == 100000         \* the wall clock at the start
TickSeconds == 400      \* how far one Tick moves the wall clock
MaxTicks == 1           \* how many Ticks are taken
MaxDirectives == 2      \* how many directives a Cache-Control header holds

Views == {"a", "b"}

Rfc2822(t) == Some([fmt |-> "rfc2822", t |-> t, tz |-> TRUE])
Rfc2822Naive(t) == Some([fmt |-> "rfc2822", t |-> t, tz |-> FALSE])
Iso8601(t) == Some([fmt |-> "iso8601", t |-> t, tz |-> TRUE])
Iso8601Naive(t) == Some([fmt |-> "iso8601", t |-> t, tz |-> FALSE])
Junk == Some([fmt |-> "junk", t |-> 0, tz |-> FALSE])
EmptyTime == Some([fmt |-> "empty", t |-> 0, tz |-> FALSE])

\* the directives Cache-Control headers are made of
Directives == {
    <<"n", "o", "-", "c", "a", "c", "h", "e">>,
    <<"N", "o", "-", "S", "t", "o", "r", "e">>,
    <<"p", "u", "b", "l", "i", "c">>,
    <<"m", "a", "x", "-", "a", "g", "e", "=", "1", "2", "0">>,
    <<"M", "a", "x", "-", "A", "g", "e", "=", "3", "0", "0", "0", "0">>,
    <<"m", "a", "x", "-", "a", "g", "e", "=", "-", "5">>,
    <<"m", "a", "x", "-", "a", "g", "e", "=", "a", "b", "c">>,
    <<"m", "a", "x", "-", "a", "g", "e", "=">>,
    <<" ", "m", "a", "x", "-", "a", "g", "e", "=", " ", "7", " ">>,
    <<"s", "-", "m", "a", "x", "a", "g", "e", "=", "9">> }

RECURSIVE Joined(_)
Joined(n) ==
    IF n <= 1 THEN Directives
    ELSE Joined(n - 1) \cup {d \o COMMA \o e : d \in Joined(n - 1), e \in Directives}

CacheControls == {None, Some(<<>>)} \cup {Some(d) : d \in Joined(MaxDirectives)}

MaxAges == {
    None,
    Some(<<"m", "a", "x", "-", "a", "g", "e", "=", "0">>),
    Some(<<"m", "a", "x", "-", "a", "g", "e", "=", "1", "2", "0">>),
    Some(<<"m", "a", "x", "-", "a", "g", "e", "=", "6", "0", "0">>),
    Some(<<"m", "a", "x", "-", "a", "g", "e", "=", "2", "1", "6", "0", "0">>),
    Some(<<"m", "a", "x", "-", "a", "g", "e", "=", "2", "1", "6", "0", "1">>),
    Some(<<"m", "a", "x", "-", "a", "g", "e", "=", "9", "9", "9", "9", "9", "9", "9">>),
    Some(<<"m", "a", "x", "-", "a", "g", "e", "=", "-", "5">>),
    Some(<<"n", "o", "-", "c", "a", "c", "h", "e">>) }

Ages == {
    None, Some(<<>>), Some(<<"a", "b", "c">>), Some(<<"0">>), Some(<<"2", "0">>),
    Some(<<"1", "2", "0">>), Some(<<"-", "7">>), Some(<<"-", "3", "0", "0", "0", "0">>),
    Some(<<"9", "9", "9", "9", "9", "9", "9">>) }

Dates == {None, Junk, Rfc2822(Epoch - 50), Rfc2822Naive(Epoch - 50), Iso8601(Epoch - 900)}

ExpiresValues == {None, EmptyTime, Junk, Rfc2822(Epoch + 1000), Iso8601Naive(Epoch + 1000)}

Headers(ccs, ages, dates, exps, lms, etags) ==
    [cc : ccs, age : ages, date : dates, expires : exps, last_modified : lms, etag : etags]

\* the responses of SpecCalc: every Cache-Control header with few other headers,
\* and every max-age, Age, Date and Expires combination
HeadersCalc ==
    Headers(CacheControls, {None, Some(<<"2", "0">>)}, {None}, {None}, {None}, {None})
    \cup Headers(MaxAges, Ages, Dates, ExpiresValues, {None}, {None})

\* the responses of SpecView
HeadersView ==
    Headers({None, Some(<<"m", "a", "x", "-", "a", "g", "e", "=", "1", "2", "0">>)},
            {None}, {None, Junk, Rfc2822(Epoch - 50)}, {Rfc2822(Epoch + 1000)},
            {None}, {Some(<<"W", "/", "1">>)})
    \cup Headers({None}, {Some(<<"2", "0">>)}, {None}, {None}, {Rfc2822(Epoch - 5000)}, {None})

-----------------------------------------------------------------------------
\* States outside the component a specification is about

IdleFeed == [headers |-> None, rss_d |-> None, web_response |-> FALSE]
IdleResult == [kind |-> "idle", val |-> None, exc |-> ""]
IdleHeaders == [cc |-> None, age |-> None, date |-> None, expires |-> None,
                last_modified |-> None, etag |-> None]
IdleJar == [is_dummy |-> TRUE, real |-> 0, stores |-> <<>>]
IdleObs == [op |-> "", ret |-> {}, updated |-> FALSE, args |-> {}]
IdleEnv == [PROXY_BYPASS_PRIVATE |-> FALSE, PROXY_BYPASS_DOMAINS |-> {}]
IdleCall == [hostname |-> <<>>, ret |-> None]

-----------------------------------------------------------------------------
\* WebResponse: reading the cached properties

\* view v reads the cached property f
Read ==
    \E v \in Views, f \in Fields :
        /\ cache' = [cache EXCEPT ![v] = Get(cache[v], f)]
        /\ UNCHANGED <<headers, clock, feed, result, jar, tasks, obs, env, pcall>>

\* the first view reads one of the properties the cache lifetime is made of
CalcFields == {"max_age", "age", "age_remaining", "expires"}

ReadFirst ==
    \E f \in CalcFields :
        /\ cache' = [cache EXCEPT !["a"] = Get(cache["a"], f)]
        /\ UNCHANGED <<headers, clock, feed, result, jar, tasks, obs, env, pcall>>

\* time passes
Tick ==
    /\ clock < Epoch + MaxTicks * TickSeconds
    /\ clock' = clock + TickSeconds
    /\ UNCHANGED <<headers, cache, feed, result, jar, tasks, obs, env, pcall>>

InitRest ==
    /\ feed = IdleFeed
    /\ result = IdleResult
    /\ jar = IdleJar
    /\ tasks = <<>>
    /\ obs = IdleObs
    /\ env = IdleEnv
    /\ pcall = IdleCall

InitCalc ==
    /\ headers \in HeadersCalc
    /\ clock = Epoch
    /\ cache = [v \in Views |-> Fresh]
    /\ InitRest

SpecCalc == InitCalc /\ [][ReadFirst]_vars

InitView ==
    /\ headers \in HeadersView
    /\ clock = Epoch
    /\ cache = [v \in Views |-> Fresh]
    /\ InitRest

NextView == Read \/ Tick

SpecView == InitView /\ [][NextView]_vars

-----------------------------------------------------------------------------
\* WebFeed.calc_next_check_as_per_server_side_cache
\* feed.headers is None or Some of the cf-cache-status value (itself None when the
\* header is absent); feed.rss_d is None or Some of the feed's generator, updated
\* and ttl; feed.web_response tells whether web_response is set (it is the view "a").

Return(c, val) == [cache |-> c, result |-> [kind |-> "return", val |-> val, exc |-> ""]]
Raise(c, exc) == [cache |-> c, result |-> [kind |-> "raise", val |-> None, exc |-> exc]]

EdgeStatuses == {"HIT", "MISS", "EXPIRED", "REVALIDATED"}

\* lines 266-275, with the storage c after the read of wr.max_age (if any)
DeferByTtl(rss_d, ttl, c) ==
    LET ttl_in_second == IF ttl = None \/ Val(ttl) = 0 THEN -1 ELSE Val(ttl)
        updated == rfc_2822_8601_to_datetime(rss_d.updated)
    IN IF ttl_in_second > 300 /\ updated # None
       THEN IF ~Comparable(Val(updated), Val(c.now)) THEN Raise(c, "TypeError")
            ELSE IF After(PlusSeconds(Val(updated), ttl_in_second), Val(c.now))
            THEN Return(c, Some(PlusSeconds(Val(updated), ttl_in_second)))
            ELSE Return(c, None)
       ELSE Return(c, None)

\* rss_d.feed.get('ttl', '')
TtlInMinuteStr(rss_d) == IF rss_d.ttl = None THEN <<>> ELSE Val(rss_d.ttl)

\* lines 257-277, entered with the view's storage c
FeedTtlRule(f, c) ==
    IF f.rss_d = None THEN Raise(c, "AttributeError")
    ELSE IF Val(f.rss_d).generator = Some("RSSHub")
            /\ Val(f.rss_d).updated # None /\ Val(Val(f.rss_d).updated).fmt # "empty"
    THEN IF IsDecimal(TtlInMinuteStr(Val(f.rss_d)))
         THEN DeferByTtl(Val(f.rss_d),
                         Some(Val(ParseInt(TtlInMinuteStr(Val(f.rss_d)))) * 60), c)
         ELSE DeferByTtl(Val(f.rss_d), Val(GetMaxAge(c).max_age), GetMaxAge(c))
    ELSE Return(c, None)

\* lines 253-255, with the storage c after the read of wr.expires
EdgeCacheRule(f, c) ==
    IF Val(c.expires) = None THEN FeedTtlRule(f, c)
    ELSE IF ~Comparable(Val(Val(c.expires)), Val(c.now)) THEN Raise(c, "TypeError")
    ELSE IF After(Val(Val(c.expires)), Val(c.now)) THEN Return(c, Val(c.expires))
    ELSE FeedTtlRule(f, c)

\* lines 252-277, with the storage c after the read of wr.now
AfterNow(f, c) ==
    IF f.headers = None THEN Raise(c, "AttributeError")
    ELSE IF Val(f.headers) # None /\ Val(Val(f.headers)) \in EdgeStatuses
    THEN EdgeCacheRule(f, GetExpires(c))
    ELSE FeedTtlRule(f, c)

\* lines 243-277
calc_next_check_as_per_server_side_cache(f, c) ==
    IF ~f.web_response THEN Return(c, None) ELSE AfterNow(f, GetNow(c))

\* one call of the method on a feed whose web_response is the view "a"
Calc ==
    LET out == calc_next_check_as_per_server_side_cache(feed, cache["a"])
    IN /\ result.kind = "idle"
       /\ cache' = [cache EXCEPT !["a"] = out.cache]
       /\ result' = out.result
       /\ UNCHANGED <<headers, clock, feed, jar, tasks, obs, env, pcall>>

\* the inputs of SpecFeed
CfCacheStatuses == {None, Some(None), Some(Some("HIT")), Some(Some("MISS")),
                    Some(Some("EXPIRED")), Some(Some("REVALIDATED")),
                    Some(Some("DYNAMIC"))}

Generators == {None, Some("RSSHub"), Some("rsshub")}

UpdatedValues == {None, EmptyTime, Junk, Rfc2822(Epoch - 1), Rfc2822(Epoch - 700),
                  Iso8601Naive(Epoch - 1)}

Ttls == {None, Some(<<"0">>), Some(<<"4">>), Some(<<"5">>), Some(<<"6">>),
         Some(<<"1", "0">>), Some(<<"a", "b", "c">>)}

Feeds ==
    [headers : CfCacheStatuses, web_response : {TRUE},
     rss_d : {None} \cup {Some(d) : d \in [generator : Generators, updated : UpdatedValues,
                                           ttl : Ttls]}]
    \cup {IdleFeed}

HeadersFeed ==
    Headers({None,
             Some(<<"m", "a", "x", "-", "a", "g", "e", "=", "1", "2", "0">>),
             Some(<<"m", "a", "x", "-", "a", "g", "e", "=", "6", "0", "0">>)},
            {None},
            {None, Rfc2822(Epoch - 50), Rfc2822Naive(Epoch - 50)},
            {None, Rfc2822(Epoch + 1000), Rfc2822(Epoch - 10), Iso8601Naive(Epoch + 1000)},
            {None}, {None})

InitFeed ==
    /\ headers \in HeadersFeed
    /\ clock = Epoch
    /\ cache = [v \in Views |-> Fresh]
    /\ feed \in Feeds
    /\ result = IdleResult
    /\ jar = IdleJar
    /\ tasks = <<>>
    /\ obs = IdleObs
    /\ env = IdleEnv
    /\ pcall = IdleCall

NextFeed == Calc \/ Tick

SpecFeed == InitFeed /\ [][NextFeed]_vars

-----------------------------------------------------------------------------
\* YummyCookieJar
\* jar.real names the object __real_cookie_jar refers to: 0 is the DummyCookieJar
\* made by __init__, k >= 1 the k-th aiohttp.CookieJar allocated, whose cookies are
\* jar.stores[k]. The DummyCookieJar holds nothing and ignores every operation.

NumTasks == 2           \* how many tasks call update_cookies at once

Cookies == {[domain |-> "a.example", name |-> "sid"],
            [domain |-> "a.example", name |-> "lang"],
            [domain |-> "b.example", name |-> "sid"]}

CookieDomains == {c.domain : c \in Cookies}

NewJar == [is_dummy |-> TRUE, real |-> 0, stores |-> <<>>]

\* the cookies of the jar numbered ref, and of the one j.__real_cookie_jar refers to
StoreAt(j, ref) == IF ref = 0 THEN {} ELSE j.stores[ref]
Store(j) == StoreAt(j, j.real)

\* aiohttp.CookieJar(*self.__init_args, **self.__init_kwargs), assigned to
\* __real_cookie_jar (line 70)
Allocate(j) == [j EXCEPT !.stores = Append(@, {}), !.real = Len(j.stores) + 1]

\* self.__is_dummy = False (line 71)
ResetFlag(j) == [j EXCEPT !.is_dummy = FALSE]

\* an operation of the jar numbered ref that leaves it with the cookies kept
SetStore(j, ref, kept) == IF ref = 0 THEN j ELSE [j EXCEPT !.stores[ref] = kept]

\* lines 69-71 without the flag reset
Upgrade_NoFlagReset(j) == IF j.is_dummy THEN Allocate(j) ELSE j

\* lines 69-71
Upgrade(j) == IF j.is_dummy THEN ResetFlag(Allocate(j)) ELSE j

\* update_cookies, as one step of a single task
update_cookies ==
    \E cs \in SUBSET Cookies :
        /\ jar' = SetStore(Upgrade(jar), Upgrade(jar).real, Store(Upgrade(jar)) \cup cs)
        /\ obs' = [obs EXCEPT !.op = "update_cookies", !.ret = {}, !.updated = TRUE,
                              !.args = cs]
        /\ UNCHANGED <<headers, clock, cache, feed, result, tasks, env, pcall>>

\* clear() with no predicate
clear ==
    /\ jar' = SetStore(jar, jar.real, {})
    /\ obs' = [obs EXCEPT !.op = "clear", !.ret = {}]
    /\ UNCHANGED <<headers, clock, cache, feed, result, tasks, env, pcall>>

clear_domain ==
    \E d \in CookieDomains :
        /\ jar' = SetStore(jar, jar.real, {c \in Store(jar) : c.domain # d})
        /\ obs' = [obs EXCEPT !.op = "clear_domain", !.ret = {}]
        /\ UNCHANGED <<headers, clock, cache, feed, result, tasks, env, pcall>>

filter_cookies ==
    \E d \in CookieDomains :
        /\ obs' = [obs EXCEPT !.op = "filter_cookies",
                              !.ret = {c \in Store(jar) : c.domain = d}]
        /\ UNCHANGED <<headers, clock, cache, feed, result, jar, tasks, env, pcall>>

Iterate ==
    /\ obs' = [obs EXCEPT !.op = "iter", !.ret = Store(jar)]
    /\ UNCHANGED <<headers, clock, cache, feed, result, jar, tasks, env, pcall>>

Length ==
    /\ obs' = [obs EXCEPT !.op = "len", !.ret = {Cardinality(Store(jar))}]
    /\ UNCHANGED <<headers, clock, cache, feed, result, jar, tasks, env, pcall>>

InitJar ==
    /\ headers = IdleHeaders
    /\ clock = Epoch
    /\ cache = [v \in Views |-> Fresh]
    /\ feed = IdleFeed
    /\ result = IdleResult
    /\ jar = NewJar
    /\ tasks = <<>>
    /\ obs = IdleObs
    /\ env = IdleEnv
    /\ pcall = IdleCall

NextJar == update_cookies \/ clear \/ clear_domain \/ filter_cookies \/ Iterate \/ Length

SpecJar == InitJar /\ [][NextJar]_vars

\* update_cookies called by several tasks at once, one statement at a time

Tasks == 1..NumTasks

\* line 69
CheckFlag(t) ==
    /\ tasks[t].pc = "check"
    /\ tasks' = [tasks EXCEPT ![t].pc = IF jar.is_dummy THEN "allocate" ELSE "load"]
    /\ UNCHANGED <<headers, clock, cache, feed, result, jar, obs, env, pcall>>

\* line 70
AllocateStore(t) ==
    /\ tasks[t].pc = "allocate"
    /\ jar' = Allocate(jar)
    /\ tasks' = [tasks EXCEPT ![t].pc = "reset"]
    /\ UNCHANGED <<headers, clock, cache, feed, result, obs, env, pcall>>

\* line 71
ResetDummy(t) ==
    /\ tasks[t].pc = "reset"
    /\ jar' = ResetFlag(jar)
    /\ tasks' = [tasks EXCEPT ![t].pc = "load"]
    /\ UNCHANGED <<headers, clock, cache, feed, result, obs, env, pcall>>

\* line 72: self.__real_cookie_jar is read
LoadJar(t) ==
    /\ tasks[t].pc = "load"
    /\ tasks' = [tasks EXCEPT ![t].pc = "delegate", ![t].ref = jar.real]
    /\ UNCHANGED <<headers, clock, cache, feed, result, jar, obs, env, pcall>>

\* line 72: its update_cookies is called
Delegate(t) ==
    /\ tasks[t].pc = "delegate"
    /\ jar' = SetStore(jar, tasks[t].ref, StoreAt(jar, tasks[t].ref) \cup tasks[t].args)
    /\ tasks' = [tasks EXCEPT ![t].pc = "done"]
    /\ UNCHANGED <<headers, clock, cache, feed, result, obs, env, pcall>>

InitRace ==
    /\ headers = IdleHeaders
    /\ clock = Epoch
    /\ cache = [v \in Views |-> Fresh]
    /\ feed = IdleFeed
    /\ result = IdleResult
    /\ jar = NewJar
    /\ tasks \in [Tasks -> [pc : {"check"}, ref : {0}, args : {{c} : c \in Cookies}]]
    /\ obs = IdleObs
    /\ env = IdleEnv
    /\ pcall = IdleCall

NextRace ==
    \E t \in Tasks :
        CheckFlag(t) \/ AllocateStore(t) \/ ResetDummy(t) \/ LoadJar(t) \/ Delegate(t)

SpecRace == InitRace /\ [][NextRace]_vars

-----------------------------------------------------------------------------
\* proxy_filter
\* An IP address is [v |-> version, words |-> its octets (IPv4) or 16-bit groups
\* (IPv6)]; a network adds the prefix length.

Dot == <<".">>
Colon == <<":">>
HexDigits == <<"0", "1", "2", "3", "4", "5", "6", "7", "8", "9", "a", "b", "c", "d", "e", "f">>

\* s.split(sep), sep one character
RECURSIVE Split(_, _)
Split(s, sep) ==
    IF Contains(s, sep)
    THEN <<Partition(s, sep)[1]>> \o Split(Partition(s, sep)[3], sep)
    ELSE <<s>>

\* an octet of a dotted quad: 1 to 3 decimal digits, no leading zero, at most 255
IsOctet(part) ==
    /\ Len(part) \in 1..3
    /\ \A i \in 1..Len(part) : IsDigit(part[i])
    /\ Len(part) > 1 => part[1] # "0"
    /\ DecValue(part, 0) <= 255

IsIPv4(s) ==
    /\ Len(Split(s, Dot)) = 4
    /\ \A i \in 1..4 : IsOctet(Split(s, Dot)[i])

IPv4Words(s) == [i \in 1..4 |-> DecValue(Split(s, Dot)[i], 0)]

IsHextet(part) ==
    /\ Len(part) \in 1..4
    /\ \A i \in 1..Len(part) : IndexOf(HexDigits, LowerChar(part[i])) > 0

RECURSIVE HexValue(_, _)
HexValue(part, acc) ==
    IF part = <<>> THEN acc
    ELSE HexValue(Tail(part), acc * 16 + IndexOf(HexDigits, LowerChar(Head(part))) - 1)

\* the groups of an IPv6 literal, a dotted quad at its end taken as two groups
Groups(s) ==
    LET parts == Split(s, Colon)
        last == parts[Len(parts)]
    IN IF Contains(last, Dot) /\ IsIPv4(last)
       THEN SubSeq(parts, 1, Len(parts) - 1)
            \o << <<"x">>, <<"x">> >>
       ELSE parts

\* the 16-bit value of group i of the parts
GroupValue(s, i) ==
    LET parts == Split(s, Colon)
        last == parts[Len(parts)]
        quad == IPv4Words(last)
    IN IF Contains(last, Dot) /\ IsIPv4(last) /\ i >= Len(parts)
       THEN IF i = Len(parts) THEN quad[1] * 256 + quad[2] ELSE quad[3] * 256 + quad[4]
       ELSE HexValue(parts[i], 0)

IsGroup(s, i) ==
    LET parts == Split(s, Colon)
        last == parts[Len(parts)]
    IN IF Contains(last, Dot) /\ IsIPv4(last) /\ i >= Len(parts) THEN TRUE
       ELSE IsHextet(Groups(s)[i])

\* the places of the "::" of an IPv6 literal, among its inner parts
Skips(parts) == {i \in 2..(Len(parts) - 1) : parts[i] = <<>>}

IsIPv6(s) ==
    LET parts == Groups(s)
        n == Len(parts)
        skip == Min(Skips(parts))
        hi == IF parts[1] = <<>> THEN skip - 2 ELSE skip - 1
        lo == IF parts[n] = <<>> THEN n - skip - 1 ELSE n - skip
    IN /\ n >= 3 /\ n <= 9
       /\ Cardinality(Skips(parts)) <= 1
       /\ IF Skips(parts) # {}
          THEN /\ parts[1] = <<>> => skip = 2
               /\ parts[n] = <<>> => skip = n - 1
               /\ hi + lo <= 7
               /\ \A i \in 1..n : parts[i] # <<>> => IsGroup(s, i)
          ELSE /\ n = 8
               /\ \A i \in 1..n : parts[i] # <<>> /\ IsGroup(s, i)

IPv6Words(s) ==
    LET parts == Groups(s)
        n == Len(parts)
        skip == IF Skips(parts) = {} THEN 0 ELSE Min(Skips(parts))
        hi == IF skip = 0 THEN 8 ELSE IF parts[1] = <<>> THEN 0 ELSE skip - 1
        lo == IF skip = 0 THEN 0 ELSE IF parts[n] = <<>> THEN 0 ELSE n - skip
    IN [i \in 1..8 |->
           IF i <= hi THEN GroupValue(s, i)
           ELSE IF i > 8 - lo THEN GroupValue(s, n - (8 - i))
           ELSE 0]

\* ip_address(hostname): the address, or None where Python raises ValueError
\* (a scope id, "%eth0", is not part of the alphabet of the hostnames)
ip_address(hostname) ==
    IF IsIPv4(hostname) THEN Some([v |-> 4, words |-> IPv4Words(hostname)])
    ELSE IF IsIPv6(hostname) THEN Some([v |-> 6, words |-> IPv6Words(hostname)])
    ELSE None

Network(v, words, prefix) == [v |-> v, words |-> words, prefix |-> prefix]

PRIVATE_NETWORKS == {
    Network(4, <<127, 0, 0, 0>>, 8),
    Network(6, <<0, 0, 0, 0, 0, 0, 0, 1>>, 128),
    Network(4, <<169, 254, 0, 0>>, 16),
    Network(6, <<65152, 0, 0, 0, 0, 0, 0, 0>>, 10),
    Network(4, <<10, 0, 0, 0>>, 8),
    Network(4, <<172, 16, 0, 0>>, 12),
    Network(4, <<192, 168, 0, 0>>, 16),
    Network(6, <<64512, 0, 0, 0, 0, 0, 0, 0>>, 7) }

RECURSIVE Pow2(_)
Pow2(n) == IF n <= 0 THEN 1 ELSE 2 * Pow2(n - 1)

\* ip_a in network: same version, same leading prefix bits
InNetwork(ip_a, network) ==
    LET bits == IF network.v = 4 THEN 8 ELSE 16
    IN /\ ip_a.v = network.v
       /\ \A i \in 1..Len(network.words) :
              LET kept == IF network.prefix >= i * bits THEN bits
                          ELSE IF network.prefix <= (i - 1) * bits THEN 0
                          ELSE network.prefix - (i - 1) * bits
              IN ip_a.words[i] \div Pow2(bits - kept) = network.words[i] \div Pow2(bits - kept)

\* without the look at the character before the suffix
DomainMatches_NoDot(hostname, domain) == EndsWith(hostname, domain)

\* line 292, for one domain
DomainMatches(hostname, domain) ==
    /\ EndsWith(hostname, domain)
    /\ \/ hostname = domain
       \/ hostname[Len(hostname) - Len(domain)] = "."

\* lines 280-296, from the hostname on
proxy_filter(e, hostname) ==
    IF ~(e.PROXY_BYPASS_PRIVATE \/ e.PROXY_BYPASS_DOMAINS # {}) THEN TRUE
    ELSE IF /\ e.PROXY_BYPASS_PRIVATE
            /\ ip_address(hostname) # None
            /\ \E network \in PRIVATE_NETWORKS : InNetwork(Val(ip_address(hostname)), network)
    THEN FALSE
    ELSE IF /\ e.PROXY_BYPASS_DOMAINS # {}
            /\ \E domain \in e.PROXY_BYPASS_DOMAINS : DomainMatches(hostname, domain)
    THEN FALSE
    ELSE TRUE

Hostnames == {
    <<"1", "2", "7", ".", "0", ".", "0", ".", "1">>,
    <<"8", ".", "8", ".", "8", ".", "8">>,
    <<"1", "0", ".", "1", ".", "2", ".", "3">>,
    <<"1", "1", ".", "0", ".", "0", ".", "1">>,
    <<"1", "7", "2", ".", "1", "6", ".", "0", ".", "1">>,
    <<"1", "7", "2", ".", "3", "1", ".", "2", "5", "5", ".", "2", "5", "5">>,
    <<"1", "7", "2", ".", "3", "2", ".", "0", ".", "1">>,
    <<"1", "7", "2", ".", "1", "5", ".", "0", ".", "1">>,
    <<"1", "9", "2", ".", "1", "6", "8", ".", "1", ".", "1">>,
    <<"1", "9", "2", ".", "1", "6", "9", ".", "1", ".", "1">>,
    <<"1", "6", "9", ".", "2", "5", "4", ".", "7", ".", "7">>,
    <<"1", "6", "9", ".", "2", "5", "3", ".", "7", ".", "7">>,
    <<"0", "1", "0", ".", "0", ".", "0", ".", "1">>,
    <<"1", "0", ".", "0", ".", "0">>,
    <<"1", "0", ".", "0", ".", "0", ".", "2", "5", "6">>,
    <<":", ":", "1">>,
    <<":", ":", "2">>,
    <<"f", "e", "8", "0", ":", ":", "1">>,
    <<"F", "E", "B", "F", ":", ":", "1">>,
    <<"f", "e", "c", "0", ":", ":", "1">>,
    <<"f", "c", "0", "0", ":", ":", "1">>,
    <<"f", "d", "f", "f", ":", ":", "1">>,
    <<"f", "e", "0", "0", ":", ":", "1">>,
    <<"2", "0", "0", "1", ":", "d", "b", "8", ":", ":", "1">>,
    <<":", ":", "f", "f", "f", "f", ":", "1", "0", ".", "0", ".", "0", ".", "1">>,
    <<"1", ":", "2", ":", "3", ":", "4", ":", "5", ":", "6", ":", "7", ":", "8">>,
    <<"f", "e", "8", "0", ":", "1">>,
    <<"1", ":", ":", "2", ":", ":", "3">>,
    <<"e", "x", "a", "m", "p", "l", "e", ".", "c", "o", "m">>,
    <<"s", "u", "b", ".", "e", "x", "a", "m", "p", "l", "e", ".", "c", "o", "m">>,
    <<"n", "o", "t", "e", "x", "a", "m", "p", "l", "e", ".", "c", "o", "m">>,
    <<"e", "x", "a", "m", "p", "l", "e", ".", "c", "o", "m", ".", "e", "v", "i", "l", ".", "n", "e", "t">>,
    <<"a", ".", "b", ".", "e", "x", "a", "m", "p", "l", "e", ".", "o", "r", "g">>,
    <<"o", "r", "g">>,
    <<"x", "o", "r", "g">>,
    <<"l", "o", "c", "a", "l", "h", "o", "s", "t">>,
    <<>> }

BypassDomains == {
    {},
    {<<"e", "x", "a", "m", "p", "l", "e", ".", "c", "o", "m">>},
    {<<"e", "x", "a", "m", "p", "l", "e", ".", "c", "o", "m">>, <<"o", "r", "g">>},
    {<<"0", ".", "1">>},
    {<<>>} }

\* one call of proxy_filter
ProxyFilter ==
    \E hostname \in Hostnames :
        /\ pcall' = [hostname |-> hostname, ret |-> Some(proxy_filter(env, hostname))]
        /\ UNCHANGED <<headers, clock, cache, feed, result, jar, tasks, obs, env>>

InitProxy ==
    /\ headers = IdleHeaders
    /\ clock = Epoch
    /\ cache = [v \in Views |-> Fresh]
    /\ feed = IdleFeed
    /\ result = IdleResult
    /\ jar = IdleJar
    /\ tasks = <<>>
    /\ obs = IdleObs
    /\ env \in [PROXY_BYPASS_PRIVATE : BOOLEAN, PROXY_BYPASS_DOMAINS : BypassDomains]
    /\ pcall = IdleCall

SpecProxy == InitProxy /\ [][ProxyFilter]_vars

-----------------------------------------------------------------------------
\* Claims about WebResponse

View(v) == cache[v]

\* max_age - (age or 0), from the headers
Difference(h) == Val(max_age(h)) - (IF age(h) = None THEN 0 ELSE Val(age(h)))

\* C1: age_remaining is absent exactly when max_age is absent; otherwise it is an
\* integer of [0, 21600], and it is max_age - (age or 0) whenever that difference
\* lies in the range.
C1_AgeRemainingClamped ==
    \A v \in Views :
        IsCached(View(v), "age_remaining") =>
            LET age_remaining == Val(View(v).age_remaining)
            IN /\ (age_remaining = None) <=> (max_age(headers) = None)
               /\ age_remaining # None =>
                      /\ Val(age_remaining) \in 0..21600
                      /\ Difference(headers) \in 0..21600 =>
                             Val(age_remaining) = Difference(headers)

\* a difference above the range has been clamped
C1_Witness ==
    /\ IsCached(View("a"), "age_remaining")
    /\ max_age(headers) # None
    /\ age(headers) # None
    /\ Difference(headers) > 21600
    /\ Val(View("a").age_remaining) = Some(21600)

\* C2: expires is the parsed Expires header when age_remaining is absent, absent
\* when age_remaining <= 0, and date + age_remaining otherwise: with a max_age the
\* Expires header has no influence, and expires lies in (date, date + 21600].
C2_ExpiresPrecedence ==
    \A v \in Views :
        IsCached(View(v), "expires") =>
            LET age_remaining == Val(View(v).age_remaining)
                expires == Val(View(v).expires)
            IN /\ age_remaining = None =>
                      expires = rfc_2822_8601_to_datetime(headers.expires)
               /\ (age_remaining # None /\ Val(age_remaining) <= 0) => expires = None
               /\ (age_remaining # None /\ Val(age_remaining) > 0) =>
                      /\ expires = Some(PlusSeconds(Val(View(v).date), Val(age_remaining)))
                      /\ Val(expires).t > Val(View(v).date).t
                      /\ Val(expires).t <= Val(View(v).date).t + 21600
               /\ (max_age(headers) = None) <=> (age_remaining = None)

\* a response with both a max_age and a parsable Expires header, whose expires is
\* not the Expires header
C2_Witness ==
    /\ IsCached(View("a"), "expires")
    /\ max_age(headers) # None
    /\ rfc_2822_8601_to_datetime(headers.expires) # None
    /\ Val(View("a").expires) # None
    /\ Val(View("a").expires) # rfc_2822_8601_to_datetime(headers.expires)

\* whether p occurs at place i of s, in any letter case
OccursAt(s, p, i) ==
    /\ i + Len(p) - 1 <= Len(s)
    /\ \A k \in 1..Len(p) : LowerChar(s[i + k - 1]) = p[k]

OccursIn(s, p) == \E i \in 1..Len(s) : OccursAt(s, p, i)

\* the text following the first max-age= up to the next comma
DirectiveText(s) ==
    LET first == Min({i \in 1..Len(s) : OccursAt(s, MAX_AGE_EQ, i)})
        start == first + Len(MAX_AGE_EQ)
        commas == {j \in start..Len(s) : s[j] = ","}
        stop == IF commas = {} THEN Len(s) ELSE Min(commas) - 1
    IN SubSeq(s, start, stop)

ExpectedMaxAge(cc) ==
    IF cc = None \/ Val(cc) = <<>> THEN None
    ELSE IF OccursIn(Val(cc), NO_CACHE) \/ OccursIn(Val(cc), NO_STORE) THEN Some(0)
    ELSE IF ~OccursIn(Val(cc), MAX_AGE_EQ) THEN None
    ELSE IF DirectiveText(Val(cc)) = <<>> THEN None
    ELSE ParseInt(DirectiveText(Val(cc)))

\* C9: max_age is absent for an absent or empty Cache-Control, 0 when it holds
\* no-cache or no-store in any letter case (a max-age= directive notwithstanding),
\* otherwise the integer between the first max-age= and the next comma, and absent
\* when that text is empty or no integer or there is no max-age= directive.
C9_MaxAge ==
    \A v \in Views :
        IsCached(View(v), "max_age") =>
            /\ Val(View(v).max_age) = ExpectedMaxAge(headers.cc)
            /\ headers.cc = Some(MAX_AGE_EQ \o <<"1", "2", "0">>) =>
                   Val(View(v).max_age) = Some(120)
            /\ headers.cc = Some(MAX_AGE_EQ \o <<"a", "b", "c">>) =>
                   Val(View(v).max_age) = None

\* no-store in mixed case after a well-formed max-age= directive gives 0
C9_Witness ==
    /\ IsCached(View("a"), "max_age")
    /\ headers.cc = Some(MAX_AGE_EQ \o <<"1", "2", "0", ",", "N", "o", "-", "S", "t", "o", "r", "e">>)
    /\ Val(View("a").max_age) = Some(0)

DerivedFields == Fields \ {"now"}

\* the fields that never read the clock
HeaderOnlyFields == {"etag", "max_age", "age", "age_remaining"}

BothCached(f) == IsCached(View("a"), f) /\ IsCached(View("b"), f)

SameInstant == BothCached("now") /\ View("a").now = View("b").now

\* C8 as claimed: two views of the same headers agree on every derived field they
\* have both read.
C8_PureOfHeaders == \A f \in DerivedFields : BothCached(f) => View("a")[f] = View("b")[f]

\* a derived field, once read, keeps its value
Memoized ==
    \A v \in Views, f \in DerivedFields :
        IsCached(View(v), f) => cache'[v][f] = cache[v][f]

\* C8, amended: two views of the same headers agree on etag, max_age, age and
\* age_remaining; they agree on date, last_modified and expires when the Date
\* header parses or both views observed the same instant; and a derived field,
\* once read, returns the same value on every later read.
C8_PureOfHeadersAndNow ==
    /\ [](\A f \in DerivedFields :
              (BothCached(f) /\ (f \in HeaderOnlyFields
                                 \/ rfc_2822_8601_to_datetime(headers.date) # None
                                 \/ SameInstant))
                  => View("a")[f] = View("b")[f])
    /\ [][Memoized]_vars

\* two views that observed different instants agree on an expires computed from
\* the Date header
C8_Witness ==
    /\ BothCached("now") /\ View("a").now # View("b").now
    /\ BothCached("expires") /\ BothCached("date")
    /\ rfc_2822_8601_to_datetime(headers.date) # None
    /\ Val(View("a").expires) # None
    /\ Val(View("a").expires) # rfc_2822_8601_to_datetime(headers.expires)
    /\ View("a").expires = View("b").expires

-----------------------------------------------------------------------------
\* Claims about WebFeed.calc_next_check_as_per_server_side_cache

Called == result.kind # "idle" /\ feed.web_response

\* the instant the call took for now, and the response's expires
CallNow == Val(View("a").now)
CallExpires == Val(GetExpires(View("a")).expires)

CfCacheStatus == IF feed.headers = None THEN None ELSE Val(feed.headers)

\* the edge-cache rule applies: an edge status and an expires strictly after now
EdgeCacheHit ==
    /\ CfCacheStatus # None /\ Val(CfCacheStatus) \in EdgeStatuses
    /\ CallExpires # None /\ Val(CallExpires).t > CallNow.t

\* the edge-cache rule was left without a result: no edge status, or an expires
\* that is absent or not after now
EdgeCachePassed ==
    \/ CfCacheStatus = None
    \/ Val(CfCacheStatus) \notin EdgeStatuses
    \/ CallExpires = None
    \/ (Comparable(Val(CallExpires), CallNow) /\ Val(CallExpires).t <= CallNow.t)

\* C3: with a cf-cache-status of HIT, MISS, EXPIRED or REVALIDATED and an expires
\* strictly after now the result is exactly expires, whatever the feed says;
\* otherwise the edge-cache rule contributes nothing and the result is the feed-TTL
\* rule's.
C3_EdgeCacheRule ==
    (Called /\ feed.headers # None) =>
        IF EdgeCacheHit
        THEN result = Return(View("a"), CallExpires).result
        ELSE result = FeedTtlRule(feed, View("a")).result

\* the effective TTL of the claim: ttl * 60, else the response's max_age, else -1
EffectiveTtl ==
    LET ttl == Val(feed.rss_d).ttl
    IN IF ttl # None /\ IsDecimal(Val(ttl)) THEN Val(ParseInt(Val(ttl))) * 60
       ELSE IF max_age(headers) # None THEN Val(max_age(headers))
       ELSE -1

FeedUpdated == rfc_2822_8601_to_datetime(Val(feed.rss_d).updated)

\* the feed-TTL rule defers
FeedTtlDefers ==
    /\ Val(feed.rss_d).generator = Some("RSSHub")
    /\ FeedUpdated # None
    /\ EffectiveTtl > 300
    /\ Val(FeedUpdated).t + EffectiveTtl > CallNow.t

\* C4: when the edge-cache rule did not return, the result is updated + TTL if and
\* only if the generator is exactly RSSHub, updated is non-empty and parses, the
\* effective TTL exceeds 300 and updated + TTL is strictly after now; in every
\* other case the result is absent.
C4_FeedTtlRule ==
    (Called /\ feed.headers # None /\ feed.rss_d # None /\ EdgeCachePassed) =>
        IF FeedTtlDefers
        THEN result = Return(View("a"),
                             Some(PlusSeconds(Val(FeedUpdated), EffectiveTtl))).result
        ELSE result = Return(View("a"), None).result

\* C5: the call never raises: it ends by returning an instant or absent.
C5_NeverRaises == Called => result.kind = "return"

-----------------------------------------------------------------------------
\* Claims about YummyCookieJar

\* before the first update_cookies: dummy mode, length 0, nothing to iterate
DummyUntilUpdated ==
    ~obs.updated =>
        /\ jar.is_dummy /\ jar.real = 0 /\ Store(jar) = {}
        /\ obs.op = "len" => obs.ret = {0}
        /\ obs.op = "iter" => obs.ret = {}

\* the first update_cookies switches to a CookieJar that holds its cookies
FirstUpdateUpgrades ==
    (~obs.updated /\ obs'.updated) =>
        /\ ~jar'.is_dummy /\ jar'.real >= 1
        /\ obs'.args \subseteq Store(jar')

\* after the switch: no return to dummy mode, no other store
NoDowngrade ==
    ~jar.is_dummy =>
        /\ ~jar'.is_dummy
        /\ jar'.real = jar.real
        /\ Len(jar'.stores) = Len(jar.stores)

\* C6: the upgrade is one-way: the jar is a dummy of length 0 until update_cookies
\* is first called, that call switches it to a CookieJar that receives its
\* cookies, and no later operation returns it to dummy mode or replaces the store.
C6_OneWayUpgrade ==
    /\ [](DummyUntilUpdated /\ (obs.updated => ~jar.is_dummy /\ Len(jar.stores) = 1))
    /\ [][FirstUpdateUpgrades /\ NoDowngrade]_vars

\* clear has emptied the CookieJar, which stays the jar's store
C6_Witness ==
    /\ obs.updated /\ obs.args # {}
    /\ obs.op = "clear"
    /\ ~jar.is_dummy /\ jar.real = 1 /\ Store(jar) = {}

AllDone == \A t \in Tasks : tasks[t].pc = "done"

\* C7: whatever the interleaving of concurrent first writes, the full store is
\* allocated exactly once and the cookies of every call are in the jar's final
\* store.
C7_GuardedUpgrade ==
    (tasks # <<>> /\ AllDone) =>
        /\ Len(jar.stores) = 1
        /\ \A t \in Tasks : tasks[t].args \subseteq Store(jar)

-----------------------------------------------------------------------------
\* Claims about proxy_filter

\* the hostname is a literal IP address inside one of the private ranges
IsPrivateLiteral(hostname) ==
    /\ ip_address(hostname) # None
    /\ LET ip == Val(ip_address(hostname))
           w == ip.words
       IN IF ip.v = 4
          THEN \/ w[1] = 127
               \/ w[1] = 10
               \/ (w[1] = 169 /\ w[2] = 254)
               \/ (w[1] = 172 /\ w[2] \in 16..31)
               \/ (w[1] = 192 /\ w[2] = 168)
          ELSE \/ w = <<0, 0, 0, 0, 0, 0, 0, 1>>
               \/ w[1] \in 65152..65215
               \/ w[1] \in 64512..65023

\* the hostname is a configured suffix, or ends with "." and that suffix
IsBypassDomain(hostname, domains) ==
    \E d \in domains : hostname = d \/ EndsWith(hostname, Dot \o d)

====
